---- MODULE Spec2Model ----
(***************************************************************************)
(* Seat reservation of Movie_Book: the socket lock registry of             *)
(* backend/server.js (activeSeatLocks), the SeatLock collection            *)
(* (backend/models/SeatLock.js), the booking routes                        *)
(* (backend/routes/bookings.js) and the theater-admin booking status       *)
(* routes (backend/routes/admin.js).                                       *)
(*                                                                         *)
(* Time is counted in minutes and observed once per lease duration.  Every *)
(* socket handler of server.js runs to                                      *)
(* completion without an await, so each is one action.  The booking routes *)
(* run inside one MongoDB transaction each, so each is one action too.     *)
(***************************************************************************)
EXTENDS Integers, Sequences, FiniteSets, TLC

\* ---------------------------------------------------------------- bounds
MaxTicks == 2
MaxBookings == 2
MaxGrants == 2
MaxDocs == 2
MaxAdminOps == 2

\* ------------------------------------------------------ program constants
LeaseMinutes == 3
MinLeadMinutes == 15
CancelWindowMinutes == 120
MaxSeatsPerRequest == 8
MaxSelected == 10

\* ----------------------------------------------------------------- inputs
Users == {"X", "Y"}
Sockets == {"sx", "sy"}
Shows == {"P", "Q"}
Rows == {"A"}
Numbers == {1, 2}
Types == {"regular", "vip"}

\* the Show collection: P and Q, and S, which starts one lease period after
\* the model's first minute
Catalog == Shows \cup {"S"}

\* show.startTime, show.totalSeats and show.price of the shows
StartTime == [p \in Catalog |-> IF p = "P" THEN 120 + 3
                                ELSE IF p = "Q" THEN 15 + 3 ELSE 0 + 3]
TotalSeats == [p \in Catalog |-> IF p = "P" THEN 2 ELSE 1]
Price == [p \in Catalog |-> [t \in {"regular", "premium", "vip"} |->
            IF t = "regular" THEN 10 + 0 ELSE IF t = "premium" THEN 10 + 5 ELSE 0 + 0]]

\* `${s.row}${s.number}` (bookings.js:91), the same identifiers the socket
\* clients send as seatIds
SeatId(s) == IF s.row = "A" /\ s.number = 1 THEN "A1"
             ELSE IF s.row = "A" /\ s.number = 2 THEN "A2"
             ELSE "??"

SeatRecs == [row : Rows, number : Numbers, type : Types]
Seats == {SeatId(s) : s \in SeatRecs}

\* the seatIds lists of socket messages and the seats lists of POST bodies
SeatIdLists == [p \in Shows |-> IF p = "P" THEN {<<"A1">>, <<"A2">>, <<"A1", "A2">>}
                                ELSE {<<"A1">>}]
Seat(number, type) == [row |-> "A", number |-> number, type |-> type]
SeatRecLists ==
  {<<a>> : a \in SeatRecs}
  \cup {<<Seat(1, t), Seat(2, t)>> : t \in Types}
  \cup {<<Seat(1, "regular"), Seat(1, "regular")>>}
\* the seats of each show's screen
ValidSeats == [p \in Catalog |-> IF p = "P" THEN {"A1", "A2"} ELSE {"A1"}]

\* a third show on a screen of nine seats, and the seatIds lists sent for it:
\* eight seats, the ninth seat, all nine
CapShow == "R"
CapSeats == <<"B1", "B2", "B3", "B4", "B5", "B6", "B7", "B8", "B9">>
CapSeatLists == {SubSeq(CapSeats, 1, MaxSeatsPerRequest),
                 SubSeq(CapSeats, MaxSeatsPerRequest + 1, MaxSeatsPerRequest + 1),
                 CapSeats}

Range(q) == {q[i] : i \in 1..Len(q)}

VARIABLES
  now,              \* Date.now(), in minutes
  connected,        \* sockets with a live connection
  activeSeatLocks,  \* server.js Map, as its entries in insertion order
  timers,           \* pending setTimeout callbacks of requestLock, each with its handle
  seatLockDocs,     \* the SeatLock collection
  bookings,         \* the Booking collection, in creation order
  availableSeats,   \* Show.availableSeats per show
  lastOp,           \* the last request handled and what it answered/emitted
  grants,           \* lockSuccess answers so far
  inserts,          \* SeatLock documents inserted so far
  adminOps,         \* theater-admin status changes so far
  rooms,            \* socket.io rooms show_${showId}: the sockets joined to each
  client            \* per socket, the React state of its booking page and SocketProvider

vars == <<now, connected, activeSeatLocks, timers, seatLockDocs, bookings,
          availableSeats, lastOp, grants, inserts, adminOps, rooms, client>>

\* ------------------------------------------------------------ JS Map
\* `${showId}_${seatId}`
LockKey(showId, seatId) == <<showId, seatId>>

MapHas(m, k) == \E i \in 1..Len(m) : m[i].key = k
MapGet(m, k) == m[CHOOSE i \in 1..Len(m) : m[i].key = k]
MapDelete(m, k) == SelectSeq(m, LAMBDA e : e.key # k)
MapSet(m, k, v) ==
  IF MapHas(m, k)
  THEN [i \in 1..Len(m) |-> IF m[i].key = k THEN [v EXCEPT !.key = k] ELSE m[i]]
  ELSE Append(m, [v EXCEPT !.key = k])

\* what the last handler answered (reply, detail: to its caller) and emitted
\* (events: to the room of the show)
NoOp == [op |-> "init", to |-> "", reply |-> "", detail |-> <<>>,
         events |-> <<>>, booking |-> 0]

\* useState initial values: no page mounted, seatLocks {}, selectedSeats []
NoPage == [page |-> FALSE, isBooked |-> {}, selectedSeats |-> <<>>, seatLocks |-> {}]

Init ==
  /\ now = 0
  /\ connected = {}
  /\ activeSeatLocks = <<>>
  /\ timers = {}
  /\ seatLockDocs = {}
  /\ bookings = <<>>
  /\ availableSeats = TotalSeats
  /\ lastOp = NoOp
  /\ grants = 0
  /\ inserts = 0
  /\ adminOps = 0
  /\ rooms = [p \in Shows |-> {}]
  /\ client = [s \in Sockets |-> NoPage]

\* the client of a socket sends its own user id (AuthContext.js:271-279)
UserOf == [s \in Sockets |-> IF s = "sx" THEN "X" ELSE "Y"]

NoLockId == <<>>
\* `lock_${showId}_${userId}_${Date.now()}`
LockId(showId, userId, t) == <<showId, userId, t>>

Event(action, showId, seatIds, lockId, reason) ==
  [action |-> action, showId |-> showId, seatIds |-> seatIds,
   lockId |-> lockId, reason |-> reason]

\* ------------------------------------------------ server.js: requestLock
\* the conflict scan with the registry looked up by seat id alone
ConflictsBySeatId(m, data) ==
  SelectSeq(data.seatIds, LAMBDA s : MapHas(m, s))

\* the conflict scan of requestLock
Conflicts(m, data) ==
  SelectSeq(data.seatIds, LAMBDA s : MapHas(m, LockKey(data.showId, s)))

\* the "Create locks" loop with the registry keyed per user:
\* `${showId}_${seatId}_${userId}`
RECURSIVE CreateLocksKeyPerUser(_, _, _, _, _)
CreateLocksKeyPerUser(m, data, seatIds, t, socketId) ==
  IF seatIds = <<>> THEN m
  ELSE LET seatId == Head(seatIds)
           lock == [key |-> <<data.showId, seatId, data.userId>>,
                    lockId |-> LockId(data.showId, data.userId, t),
                    userId |-> data.userId,
                    seatId |-> seatId,
                    showId |-> data.showId,
                    expiresAt |-> t + LeaseMinutes,
                    socketId |-> socketId]
       IN  CreateLocksKeyPerUser(MapSet(m, <<data.showId, seatId, data.userId>>, lock),
                                 data, Tail(seatIds), t, socketId)

\* the "Create locks" loop with expiresAt = new Date(3 * 60 * 1000), the
\* duration without Date.now()
RECURSIVE CreateLocksFromEpoch(_, _, _, _, _)
CreateLocksFromEpoch(m, data, seatIds, t, socketId) ==
  IF seatIds = <<>> THEN m
  ELSE LET seatId == Head(seatIds)
           lock == [key |-> LockKey(data.showId, seatId),
                    lockId |-> LockId(data.showId, data.userId, t),
                    userId |-> data.userId,
                    seatId |-> seatId,
                    showId |-> data.showId,
                    expiresAt |-> LeaseMinutes,
                    socketId |-> socketId]
       IN  CreateLocksFromEpoch(MapSet(m, LockKey(data.showId, seatId), lock),
                                data, Tail(seatIds), t, socketId)

\* the "Create locks" loop of requestLock
RECURSIVE CreateLocks(_, _, _, _, _)
CreateLocks(m, data, seatIds, t, socketId) ==
  IF seatIds = <<>> THEN m
  ELSE LET seatId == Head(seatIds)
           lock == [key |-> LockKey(data.showId, seatId),
                    lockId |-> LockId(data.showId, data.userId, t),
                    userId |-> data.userId,
                    seatId |-> seatId,
                    showId |-> data.showId,
                    expiresAt |-> t + LeaseMinutes,
                    socketId |-> socketId]
       IN  CreateLocks(MapSet(m, LockKey(data.showId, seatId), lock),
                       data, Tail(seatIds), t, socketId)

\* function releaseSeatLock(showId, seatIds, specificLockId = null):
\* the registry it leaves
RECURSIVE ReleasedMap(_, _, _, _)
ReleasedMap(m, showId, seatIds, specificLockId) ==
  IF seatIds = <<>> THEN m
  ELSE LET lockKey == LockKey(showId, Head(seatIds))
           hit == /\ MapHas(m, lockKey)
                  /\ \/ specificLockId = NoLockId
                     \/ MapGet(m, lockKey).lockId = specificLockId
       IN  ReleasedMap(IF hit THEN MapDelete(m, lockKey) ELSE m,
                       showId, Tail(seatIds), specificLockId)

\* releaseSeatLock: the seatLocksUpdated events it emits, in order
RECURSIVE ReleasedEvents(_, _, _, _)
ReleasedEvents(m, showId, seatIds, specificLockId) ==
  IF seatIds = <<>> THEN <<>>
  ELSE LET lockKey == LockKey(showId, Head(seatIds))
           hit == /\ MapHas(m, lockKey)
                  /\ \/ specificLockId = NoLockId
                     \/ MapGet(m, lockKey).lockId = specificLockId
       IN  IF hit
           THEN <<Event("released", showId, <<Head(seatIds)>>,
                        MapGet(m, lockKey).lockId, "")>>
                \o ReleasedEvents(MapDelete(m, lockKey), showId, Tail(seatIds),
                                  specificLockId)
           ELSE ReleasedEvents(m, showId, Tail(seatIds), specificLockId)

Op(op, to, reply, detail, events, booking) ==
  [op |-> op, to |-> to, reply |-> reply, detail |-> detail, events |-> events,
   booking |-> booking]

RequestLock(sock, showId, seatIds) ==
  LET data == [showId |-> showId, seatIds |-> seatIds, userId |-> UserOf[sock]]
      lockId == LockId(showId, data.userId, now)
      conflicts == Conflicts(activeSeatLocks, data)
  IN
  /\ sock \in connected
  /\ (Len(seatIds) <= MaxSeatsPerRequest /\ conflicts = <<>>) => grants < MaxGrants
  /\ IF Len(seatIds) > MaxSeatsPerRequest
     THEN /\ lastOp' = Op("requestLock", sock, "error", <<>>, <<>>, 0)
          /\ UNCHANGED <<activeSeatLocks, timers, grants>>
     ELSE IF conflicts # <<>>
     THEN /\ lastOp' = Op("requestLock", sock, "lockFailed", conflicts, <<>>, 0)
          /\ UNCHANGED <<activeSeatLocks, timers, grants>>
     ELSE /\ activeSeatLocks' = CreateLocks(activeSeatLocks, data, seatIds, now, sock)
          /\ timers' = timers \cup {[id |-> grants + 1,
                                     showId |-> showId, seatIds |-> seatIds,
                                     lockId |-> lockId, fireAt |-> now + LeaseMinutes]}
          /\ lastOp' = Op("requestLock", sock, "lockSuccess", <<>>,
                          <<Event("locked", showId, seatIds, lockId, "")>>, 0)
          /\ grants' = grants + 1
  /\ UNCHANGED <<client, rooms, now, connected, seatLockDocs, bookings, availableSeats, inserts, adminOps>>

\* the setTimeout callback of requestLock
TimerFire(t) ==
  /\ t \in timers
  /\ now >= t.fireAt
  /\ timers' = timers \ {t}
  /\ activeSeatLocks' = ReleasedMap(activeSeatLocks, t.showId, t.seatIds, t.lockId)
  /\ lastOp' = Op("timer", "", "", <<>>,
                  ReleasedEvents(activeSeatLocks, t.showId, t.seatIds, t.lockId), 0)
  /\ UNCHANGED <<client, rooms, now, connected, seatLockDocs, bookings, availableSeats, grants, inserts, adminOps>>

\* socket.on('releaseLock'): lockId is what the client put in the message,
\* NoLockId when it put none (AuthContext.js:281-289 sends none)
ReleaseLock(sock, showId, seatIds, lockId) ==
  /\ sock \in connected
  /\ activeSeatLocks' = ReleasedMap(activeSeatLocks, showId, seatIds, lockId)
  /\ lastOp' = Op("releaseLock", "", "", <<>>,
                  ReleasedEvents(activeSeatLocks, showId, seatIds, lockId), 0)
  /\ UNCHANGED <<client, rooms, now, connected, timers, seatLockDocs, bookings, availableSeats, grants, inserts, adminOps>>

\* socket.on('confirmBooking')
ConfirmBooking(sock, showId, seatIds, bookingId) ==
  /\ sock \in connected
  /\ activeSeatLocks' = ReleasedMap(activeSeatLocks, showId, seatIds, NoLockId)
  /\ lastOp' = Op("confirmBooking", "", "", <<>>,
                  ReleasedEvents(activeSeatLocks, showId, seatIds, NoLockId)
                  \o <<Event("seatsBooked", showId, seatIds, NoLockId, "")>>,
                  bookingId)
  /\ UNCHANGED <<client, rooms, now, connected, timers, seatLockDocs, bookings, availableSeats, grants, inserts, adminOps>>

\* the setInterval cleanup of server.js
SweepMap(m, t) == SelectSeq(m, LAMBDA e : ~(e.expiresAt < t))
\* the setInterval cleanup without its emit
SweepEventsSilent(m, t) == <<>>

RECURSIVE SweepEvents(_, _)
SweepEvents(m, t) ==
  IF m = <<>> THEN <<>>
  ELSE (IF Head(m).expiresAt < t
        THEN <<Event("released", Head(m).showId, <<Head(m).seatId>>, NoLockId, "expired")>>
        ELSE <<>>) \o SweepEvents(Tail(m), t)

Sweep ==
  /\ activeSeatLocks' = SweepMap(activeSeatLocks, now)
  /\ lastOp' = Op("sweep", "", "", <<>>,
                  SweepEvents(activeSeatLocks, now), 0)
  /\ UNCHANGED <<client, rooms, now, connected, timers, seatLockDocs, bookings, availableSeats, grants, inserts, adminOps>>

\* the disconnect cleanup without the `lock.socketId === socket.id` test
DisconnectMapAll(m, sock) == SelectSeq(m, LAMBDA e : FALSE)

\* socket.on('disconnect')
DisconnectMap(m, sock) == SelectSeq(m, LAMBDA e : e.socketId # sock)
RECURSIVE DisconnectEvents(_, _)
DisconnectEvents(m, sock) ==
  IF m = <<>> THEN <<>>
  ELSE (IF Head(m).socketId = sock
        THEN <<Event("released", Head(m).showId, <<Head(m).seatId>>, NoLockId,
                     "user_disconnected")>>
        ELSE <<>>) \o DisconnectEvents(Tail(m), sock)

Disconnect(sock) ==
  /\ sock \in connected
  /\ connected' = connected \ {sock}
  /\ activeSeatLocks' = DisconnectMap(activeSeatLocks, sock)
  /\ lastOp' = Op("disconnect", "", "", <<>>,
                  DisconnectEvents(activeSeatLocks, sock), 0)
  /\ rooms' = [p \in Shows |-> rooms[p] \ {sock}]
  /\ UNCHANGED <<client, now, timers, seatLockDocs, bookings, availableSeats, grants, inserts, adminOps>>

\* io.on('connection')
Connect(sock) ==
  /\ sock \notin connected
  /\ connected' = connected \cup {sock}
  /\ lastOp' = Op("connect", "", "", <<>>, <<>>, 0)
  /\ UNCHANGED <<client, rooms, now, activeSeatLocks, timers, seatLockDocs, bookings, availableSeats, grants, inserts, adminOps>>

\* -------------------------------------------------- server.js: joinShow
\* the payloads of a joinShow message: the object the handler destructures,
\* and the bare show id that AuthContext.js:257 emits
JoinData == [form : {"object"}, showId : Shows, userId : Users]
            \cup [form : {"string"}, value : Shows]

\* the show the sender of a joinShow payload means to join
JoinTarget(data) == IF data.form = "object" THEN data.showId ELSE data.value

Undefined == "undefined"
\* const { showId, userId } = data: a property of a string primitive that
\* it does not have reads as undefined
Destructure(data, field) == IF data.form = "object" THEN data[field] ELSE Undefined

\* the currentLocks array: the entries whose key starts with `${showId}_`
RECURSIVE CurrentLocks(_, _)
CurrentLocks(m, showId) ==
  IF m = <<>> THEN <<>>
  ELSE (IF Head(m).key[1] = showId
        THEN <<[seatId |-> Head(m).seatId, lockedBy |-> Head(m).userId,
                expiresAt |-> Head(m).expiresAt]>>
        ELSE <<>>) \o CurrentLocks(Tail(m), showId)

\* socket.on('joinShow'); roomUsers follows the same membership as the room
JoinShow(sock, data) ==
  LET showId == Destructure(data, "showId")
      userId == Destructure(data, "userId")
  IN
  /\ sock \in connected
  /\ IF showId = Undefined \/ userId = Undefined
     THEN /\ lastOp' = Op("joinShow", sock, "error", <<>>, <<>>, 0)
          /\ UNCHANGED rooms
     ELSE /\ rooms' = [rooms EXCEPT ![showId] = @ \cup {sock}]
          /\ lastOp' = Op("joinShow", sock, "currentLocks",
                          CurrentLocks(activeSeatLocks, showId), <<>>, 0)
  /\ UNCHANGED <<client, now, connected, activeSeatLocks, timers, seatLockDocs, bookings,
                 availableSeats, grants, inserts, adminOps>>

\* socket.on('leaveShow')
LeaveShow(sock, showId) ==
  /\ sock \in connected
  /\ rooms' = [rooms EXCEPT ![showId] = @ \ {sock}]
  /\ lastOp' = Op("leaveShow", "", "", <<>>, <<>>, 0)
  /\ UNCHANGED <<client, now, connected, activeSeatLocks, timers, seatLockDocs, bookings,
                 availableSeats, grants, inserts, adminOps>>

\* ------------------------------------- frontend: SocketProvider, Booking
\* a message the client has emitted and the server has not handled yet
Emit(sock, message, seatIds) == Op("emit", sock, message, seatIds, <<>>, 0)

\* a field of the seatLocksUpdated payload; the server puts action, seatIds,
\* lockId, expiresAt, lockedBy and reason in it, and neither showId nor
\* lockedSeats
PayloadField(e, field) ==
  IF field \in {"action", "seatIds", "lockId", "reason"} THEN e[field] ELSE Undefined

\* getLockedSeats: seatLocks[showId] || []
GetLockedSeats(c, showId) ==
  IF \E kv \in c.seatLocks : kv[1] = showId /\ kv[2] # Undefined
  THEN (CHOOSE kv \in c.seatLocks : kv[1] = showId /\ kv[2] # Undefined)[2]
  ELSE <<>>

\* isSeatLocked: getLockedSeats(showId).includes(seatId)
IsSeatLocked(c, showId, seatId) == seatId \in Range(GetLockedSeats(c, showId))

\* the Booking page of show P mounts: joinShow(showId) emits the bare show
\* id, generateSeatLayout draws isBooked for each seat with Math.random()
MountBooking(sock, booked) ==
  /\ sock \in connected
  /\ ~client[sock].page
  /\ lastOp.op # "emit"
  /\ client' = [client EXCEPT ![sock] = [@ EXCEPT !.page = TRUE,
                                                  !.isBooked = booked,
                                                  !.selectedSeats = <<>>]]
  /\ lastOp' = Emit(sock, "joinShow", <<>>)
  /\ UNCHANGED <<rooms, now, connected, activeSeatLocks, timers, seatLockDocs, bookings,
                 availableSeats, grants, inserts, adminOps>>

\* handleSeatClick(seat) on the page of show P
HandleSeatClick(sock, seat) ==
  LET c == client[sock]
      isSelected == seat \in Range(c.selectedSeats)
  IN
  /\ c.page
  /\ sock \in connected
  /\ lastOp.op # "emit"
  /\ IF seat \in c.isBooked \/ IsSeatLocked(c, "P", seat)
     THEN UNCHANGED <<client, lastOp>>
     ELSE IF isSelected
     THEN /\ client' = [client EXCEPT ![sock].selectedSeats =
                          SelectSeq(c.selectedSeats, LAMBDA a : a # seat)]
          /\ lastOp' = Emit(sock, "releaseLock", <<seat>>)
     ELSE IF Len(c.selectedSeats) >= MaxSelected
     THEN UNCHANGED <<client, lastOp>>
     ELSE /\ client' = [client EXCEPT ![sock].selectedSeats = Append(c.selectedSeats, seat)]
          /\ lastOp' = Emit(sock, "requestLock", <<seat>>)
  /\ UNCHANGED <<rooms, now, connected, activeSeatLocks, timers, seatLockDocs, bookings,
                 availableSeats, grants, inserts, adminOps>>

\* newSocket.on('seatLocksUpdated') of a member of the room:
\* seatLocks[data.showId] = data.lockedSeats
OnSeatLocksUpdated(sock) ==
  /\ sock \in connected
  /\ lastOp.op \notin {"emit", "received"}
  /\ \E k \in 1..Len(lastOp.events) :
       LET data == lastOp.events[k]
           key == PayloadField(data, "showId")
       IN  /\ data.action \in {"locked", "released"}
           /\ data.showId \in Shows
           /\ sock \in rooms[data.showId]
           /\ client' = [client EXCEPT ![sock].seatLocks =
                           {kv \in @ : kv[1] # key}
                           \cup {<<key, PayloadField(data, "lockedSeats")>>}]
  /\ lastOp' = Op("received", sock, "seatLocksUpdated", <<>>, lastOp.events, 0)
  /\ UNCHANGED <<rooms, now, connected, activeSeatLocks, timers, seatLockDocs, bookings,
                 availableSeats, grants, inserts, adminOps>>

\* the answer of a handler reaches its socket; SocketProvider has listeners
\* for seatLocksUpdated, seatBooked, bookingConfirmed and error (which logs),
\* none for lockSuccess, lockFailed or currentLocks
OnReply(sock) ==
  /\ sock \in connected
  /\ lastOp.op \in {"requestLock", "joinShow"}
  /\ lastOp.to = sock
  /\ lastOp' = Op("received", sock, lastOp.reply, lastOp.detail, <<>>, 0)
  /\ UNCHANGED <<client, rooms, now, connected, activeSeatLocks, timers, seatLockDocs,
                 bookings, availableSeats, grants, inserts, adminOps>>

\* ------------------------------------------- models/SeatLock.js collection
\* a document the schema and its unique {showId, seatId} index admit; no
\* route or socket handler inserts one, so the writer is whoever else uses
\* the database
SeatLockInsert(showId, seatId, userId) ==
  /\ inserts < MaxDocs
  /\ seatId \in ValidSeats[showId]
  /\ ~\E d \in seatLockDocs : d.showId = showId /\ d.seatId = seatId
  /\ seatLockDocs' = seatLockDocs \cup
       {[showId |-> showId, seatId |-> seatId, lockedByUserId |-> userId,
         expiresAt |-> now + LeaseMinutes]}
  /\ inserts' = inserts + 1
  /\ lastOp' = Op("seatLockInsert", "", "", <<>>, <<>>, 0)
  /\ UNCHANGED <<client, rooms, now, connected, activeSeatLocks, timers, bookings, availableSeats,
                 grants, adminOps>>

\* the TTL index { expiresAt: 1 }, expireAfterSeconds 0
SeatLockTTL ==
  /\ \E d \in seatLockDocs : d.expiresAt < now
  /\ seatLockDocs' = {d \in seatLockDocs : ~(d.expiresAt < now)}
  /\ lastOp' = Op("seatLockTTL", "", "", <<>>, <<>>, 0)
  /\ UNCHANGED <<client, rooms, now, connected, activeSeatLocks, timers, bookings, availableSeats,
                 grants, inserts, adminOps>>

\* ------------------------------------------------------ routes/bookings.js
\* the aggregate over Booking without its $unwind: the first seat of each
\* booking only
BookedSeatIdsFirstSeat(bks, showId) ==
  {SeatId(bks[i].seats[1]) :
     i \in {n \in 1..Len(bks) : /\ bks[n].showId = showId
                                /\ bks[n].status \in {"confirmed", "pending"}}}

\* the aggregate over Booking: seat ids of the show's confirmed and pending
\* bookings
BookedSeatIds(bks, showId) ==
  UNION {{SeatId(bks[i].seats[k]) : k \in 1..Len(bks[i].seats)} :
           i \in {n \in 1..Len(bks) : /\ bks[n].showId = showId
                                      /\ bks[n].status \in {"confirmed", "pending"}}}
\* show.price[seat.type] || show.price.regular
PriceOf(showId, type) ==
  IF Price[showId][type] # 0 THEN Price[showId][type] ELSE Price[showId]["regular"]

RECURSIVE SumPrices(_)
SumPrices(seats) == IF seats = <<>> THEN 0 ELSE Head(seats).price + SumPrices(Tail(seats))

\* the booking cutoff test with `<=`
InsideCutoffInclusive(timeDiff) == timeDiff <= MinLeadMinutes

\* if (timeDiff < 15)
InsideCutoff(timeDiff) == timeDiff < MinLeadMinutes

\* POST /api/bookings by user u
Commit(u, showId, seats) ==
  LET seatIds == [i \in 1..Len(seats) |-> SeatId(seats[i])]
      timeDiff == StartTime[showId] - now
      bookedSeatIds == BookedSeatIds(bookings, showId)
      conflicts == SelectSeq(seatIds, LAMBDA id : id \in bookedSeatIds)
      activeLocks == {d \in seatLockDocs : /\ d.showId = showId
                                           /\ d.seatId \in Range(seatIds)
                                           /\ d.expiresAt >= now}
      userLocks == {d \in activeLocks : d.lockedByUserId = u}
      missingLocks == SelectSeq(seatIds, LAMBDA id : ~\E d \in userLocks : d.seatId = id)
      seatsWithPrices == [i \in 1..Len(seats) |->
                            [row |-> seats[i].row, number |-> seats[i].number,
                             type |-> seats[i].type,
                             price |-> PriceOf(showId, seats[i].type)]]
      booking == [userId |-> u, showId |-> showId, seats |-> seatsWithPrices,
                  totalAmount |-> SumPrices(seatsWithPrices), status |-> "confirmed"]
  IN
  /\ Len(bookings) < MaxBookings
  /\ IF InsideCutoff(timeDiff)
     THEN /\ lastOp' = Op("commit", u, "window", <<>>, <<>>, 0)
          /\ UNCHANGED <<seatLockDocs, bookings, availableSeats>>
     ELSE IF conflicts # <<>>
     THEN /\ lastOp' = Op("commit", u, "conflict", conflicts, <<>>, 0)
          /\ UNCHANGED <<seatLockDocs, bookings, availableSeats>>
     ELSE IF Cardinality(userLocks) # Len(seatIds)
     THEN /\ lastOp' = Op("commit", u, "missingLocks", missingLocks, <<>>, 0)
          /\ UNCHANGED <<seatLockDocs, bookings, availableSeats>>
     ELSE /\ bookings' = Append(bookings, booking)
          /\ seatLockDocs' = {d \in seatLockDocs :
                                ~(/\ d.showId = showId
                                  /\ d.seatId \in Range(seatIds)
                                  /\ d.lockedByUserId = u)}
          /\ availableSeats' = [availableSeats EXCEPT ![showId] = @ - Len(seatIds)]
          /\ lastOp' = Op("commit", u, "created", seatIds, <<>>, Len(bookings) + 1)
  /\ UNCHANGED <<client, rooms, now, connected, activeSeatLocks, timers, grants, inserts, adminOps>>

\* POST /api/bookings when an awaited call throws: the catch block aborts
\* the transaction and answers 500
CommitFails(u) ==
  /\ Len(bookings) < MaxBookings
  /\ lastOp' = Op("commit", u, "failed", <<>>, <<>>, 0)
  /\ UNCHANGED <<client, rooms, now, connected, activeSeatLocks, timers, seatLockDocs, bookings,
                 availableSeats, grants, inserts, adminOps>>

\* the cancellation window test with the boundary refused
TooLateToCancelInclusive(timeDiff) == timeDiff <= CancelWindowMinutes

\* the cancellation window test: `timeDiff < 2` (hours)
TooLateToCancel(timeDiff) == timeDiff < CancelWindowMinutes

\* PUT /api/bookings/:id/cancel by user u
UserCancel(u, b) ==
  LET booking == bookings[b]
      timeDiff == StartTime[booking.showId] - now
  IN
  /\ b \in 1..Len(bookings)
  /\ IF booking.userId # u
     THEN /\ lastOp' = Op("cancel", u, "denied", <<>>, <<>>, b)
          /\ UNCHANGED <<bookings, availableSeats>>
     ELSE IF booking.status # "confirmed"
     THEN /\ lastOp' = Op("cancel", u, "notConfirmed", <<>>, <<>>, b)
          /\ UNCHANGED <<bookings, availableSeats>>
     ELSE IF TooLateToCancel(timeDiff)
     THEN /\ lastOp' = Op("cancel", u, "tooLate", <<>>, <<>>, b)
          /\ UNCHANGED <<bookings, availableSeats>>
     ELSE /\ bookings' = [bookings EXCEPT ![b].status = "cancelled"]
          /\ availableSeats' = [availableSeats EXCEPT
                                  ![booking.showId] = @ + Len(booking.seats)]
          /\ lastOp' = Op("cancel", u, "cancelled", <<>>, <<>>, b)
  /\ UNCHANGED <<client, rooms, now, connected, activeSeatLocks, timers, seatLockDocs, grants, inserts, adminOps>>

\* ------------------------------------------------------- routes/admin.js
\* PUT /api/admin/theater/bookings/:id/confirm by the theater's admin
AdminConfirm(b) ==
  /\ b \in 1..Len(bookings)
  /\ adminOps < MaxAdminOps
  /\ adminOps' = adminOps + 1
  /\ bookings' = [bookings EXCEPT ![b].status = "confirmed"]
  /\ lastOp' = Op("adminConfirm", "admin", "ok", <<>>, <<>>, b)
  /\ UNCHANGED <<client, rooms, now, connected, activeSeatLocks, timers, seatLockDocs, availableSeats,
                 grants, inserts>>

\* PUT /api/admin/theater/bookings/:id/cancel by the theater's admin
AdminCancel(b) ==
  /\ b \in 1..Len(bookings)
  /\ adminOps < MaxAdminOps
  /\ adminOps' = adminOps + 1
  /\ bookings' = [bookings EXCEPT ![b].status = "cancelled"]
  /\ lastOp' = Op("adminCancel", "admin", "ok", <<>>, <<>>, b)
  /\ UNCHANGED <<client, rooms, now, connected, activeSeatLocks, timers, seatLockDocs, availableSeats,
                 grants, inserts>>

Tick ==
  /\ now < MaxTicks * LeaseMinutes
  /\ now' = now + LeaseMinutes
  /\ UNCHANGED <<client, rooms, connected, activeSeatLocks, timers, seatLockDocs, bookings,
                 availableSeats, lastOp, grants, inserts, adminOps>>

KnownLockIds == {NoLockId} \cup {activeSeatLocks[i].lockId : i \in 1..Len(activeSeatLocks)}
                \cup {t.lockId : t \in timers}

\* the lock registry of server.js on its own
NextLocks ==
  \/ Tick
  \/ \E sock \in Sockets : Connect(sock)
  \/ \E sock \in Sockets : Disconnect(sock)
  \/ \E sock \in Sockets, p \in Shows : \E q \in SeatIdLists[p] : RequestLock(sock, p, q)
  \/ \E sock \in Sockets, p \in Shows : \E q \in SeatIdLists[p], l \in KnownLockIds :
       ReleaseLock(sock, p, q, l)
  \/ \E sock \in Sockets, p \in Shows : \E q \in SeatIdLists[p] :
       ConfirmBooking(sock, p, q, 0)
  \/ \E t \in timers : TimerFire(t)
  \/ Sweep

SpecLocks == Init /\ [][NextLocks]_vars

\* the last minute the clock reaches
Horizon == MaxTicks * LeaseMinutes

\* the lock registry with the clock advancing, the setInterval sweep running
\* and every due setTimeout callback being called
SpecLocksLive ==
  /\ Init /\ [][NextLocks]_vars
  /\ WF_vars(Tick)
  /\ WF_vars(Sweep)
  /\ WF_vars(\E t \in timers : TimerFire(t))

\* the booking routes and the SeatLock collection on their own
NextBookings ==
  \/ Tick
  \/ \E p \in Shows, a \in Seats, u \in Users : SeatLockInsert(p, a, u)
  \/ SeatLockTTL
  \/ \E u \in Users, p \in Shows, q \in SeatRecLists : Commit(u, p, q)
  \/ \E u \in Users : CommitFails(u)
  \/ \E u \in Users, b \in 1..MaxBookings : UserCancel(u, b)
  \/ \E b \in 1..MaxBookings : AdminConfirm(b)
  \/ \E b \in 1..MaxBookings : AdminCancel(b)

SpecBookings == Init /\ [][NextBookings]_vars

\* the commit route alone, with the SeatLock collection and the clock
NextCommit ==
  \/ Tick
  \/ \E p \in Shows, a \in Seats, u \in Users : SeatLockInsert(p, a, u)
  \/ SeatLockTTL
  \/ \E u \in Users, p \in Catalog, q \in SeatRecLists : Commit(u, p, q)
  \/ \E u \in Users : CommitFails(u)

SpecCommit == Init /\ [][NextCommit]_vars

\* registry and booking routes together, for show P within one lease period
FlowSeatLists == {<<Seat(1, "regular")>>, <<Seat(2, "regular")>>,
                  <<Seat(1, "regular"), Seat(2, "regular")>>}
Next ==
  \/ \E sock \in Sockets : Connect(sock)
  \/ \E sock \in Sockets, q \in SeatIdLists["P"] : RequestLock(sock, "P", q)
  \/ \E sock \in Sockets, q \in SeatIdLists["P"], l \in KnownLockIds :
       ReleaseLock(sock, "P", q, l)
  \/ \E sock \in Sockets, q \in SeatIdLists["P"], b \in {0, Len(bookings)} :
       ConfirmBooking(sock, "P", q, b)
  \/ \E a \in Seats, u \in Users : SeatLockInsert("P", a, u)
  \/ \E u \in Users, q \in FlowSeatLists : Commit(u, "P", q)
  \/ \E u \in Users : CommitFails(u)

Spec == Init /\ [][Next]_vars

\* the lock registry with the nine-seat show
NextCap ==
  \/ Tick
  \/ \E sock \in Sockets : Connect(sock)
  \/ \E sock \in Sockets : Disconnect(sock)
  \/ \E sock \in Sockets, q \in CapSeatLists : RequestLock(sock, CapShow, q)
  \/ \E sock \in Sockets, q \in CapSeatLists : ReleaseLock(sock, CapShow, q, NoLockId)
  \/ \E t \in timers : TimerFire(t)
  \/ Sweep

SpecCap == Init /\ [][NextCap]_vars

\* the rooms and the lock registry within one lease period
NextRooms ==
  \/ \E sock \in Sockets : Connect(sock)
  \/ \E sock \in Sockets : Disconnect(sock)
  \/ \E sock \in Sockets, data \in JoinData : JoinShow(sock, data)
  \/ \E sock \in Sockets, p \in Shows : LeaveShow(sock, p)
  \/ \E sock \in Sockets, p \in Shows : \E q \in SeatIdLists[p] : RequestLock(sock, p, q)
  \/ \E sock \in Sockets, p \in Shows : \E q \in SeatIdLists[p] :
       ReleaseLock(sock, p, q, NoLockId)

SpecRooms == Init /\ [][NextRooms]_vars

\* the outcomes of generateSeatLayout's Math.random() draws that are followed
LayoutDraws == {{}, {"A2"}}

\* two booking pages of show P with the server handlers their messages
\* reach, and a joinShow with the payload the server expects
NextPage ==
  \/ \E sock \in Sockets : Connect(sock)
  \/ \E sock \in Sockets, booked \in LayoutDraws : MountBooking(sock, booked)
  \/ \E sock \in Sockets, a \in ValidSeats["P"] : HandleSeatClick(sock, a)
  \/ \E sock \in Sockets :
       /\ lastOp = Emit(sock, "joinShow", <<>>)
       /\ JoinShow(sock, [form |-> "string", value |-> "P"])
  \/ \E sock \in Sockets :
       /\ lastOp.op # "emit"
       /\ sock \notin rooms["P"]
       /\ JoinShow(sock, [form |-> "object", showId |-> "P", userId |-> UserOf[sock]])
  \/ \E sock \in Sockets :
       /\ lastOp = Emit(sock, "requestLock", lastOp.detail)
       /\ RequestLock(sock, "P", lastOp.detail)
  \/ \E sock \in Sockets :
       /\ lastOp = Emit(sock, "releaseLock", lastOp.detail)
       /\ ReleaseLock(sock, "P", lastOp.detail, NoLockId)
  \/ \E sock \in Sockets : OnSeatLocksUpdated(sock)
  \/ \E sock \in Sockets : OnReply(sock)

SpecPage == Init /\ [][NextPage]_vars

\* ======================================================== the claims
\* the registry entries on seat seatId of show showId
LocksOn(m, showId, seatId) ==
  {i \in 1..Len(m) : m[i].showId = showId /\ m[i].seatId = seatId}

\* C3: the registry never holds two SeatLocks for one (performance, seat)
C3_OneLockPerKey ==
  \A p \in Shows, a \in Seats : Cardinality(LocksOn(activeSeatLocks, p, a)) <= 1

\* C3: the registry is full on one seat pair and a further request on a
\* held seat has just been refused
C3_Witness ==
  /\ lastOp.op = "requestLock" /\ lastOp.reply = "lockFailed"
  /\ Len(activeSeatLocks) >= 2
  /\ \E a \in Range(lastOp.detail), p \in Shows : LocksOn(activeSeatLocks, p, a) # {}

\* C4: a requestLock whose seats are all free answers lockSuccess and leaves
\* the requester as the holder of each; a requestLock naming a seat that has
\* a lease answers lockFailed with that seat among the conflicts, and the
\* lease stays with its holder
C4_OneWinner ==
  [][\A sock \in Sockets, p \in Shows : \A q \in SeatIdLists[p] :
       RequestLock(sock, p, q) =>
         LET held == {a \in Range(q) : LocksOn(activeSeatLocks, p, a) # {}}
         IN  IF held = {}
             THEN /\ lastOp'.reply = "lockSuccess" /\ lastOp'.to = sock
                  /\ \A a \in Range(q) :
                       \E i \in LocksOn(activeSeatLocks', p, a) :
                         activeSeatLocks'[i].userId = UserOf[sock]
             ELSE /\ lastOp'.reply = "lockFailed" /\ lastOp'.to = sock
                  /\ held \subseteq Range(lastOp'.detail)
                  /\ \A a \in held :
                       {activeSeatLocks'[i] : i \in LocksOn(activeSeatLocks', p, a)}
                       = {activeSeatLocks[i] : i \in LocksOn(activeSeatLocks, p, a)}
    ]_vars

\* C4: sy has just been refused a seat that sx was granted and still holds
C4_Witness ==
  /\ lastOp.reply = "lockFailed" /\ lastOp.to = "sy"
  /\ \E a \in Range(lastOp.detail), p \in Shows :
       \E i \in LocksOn(activeSeatLocks, p, a) : activeSeatLocks[i].socketId = "sx"

\* the seat ids of a booking
SeatIdsOf(booking) == {SeatId(booking.seats[k]) : k \in 1..Len(booking.seats)}

\* the seat ids covered by the confirmed bookings of a show
ConfirmedSeatIds(bks, showId) ==
  UNION {SeatIdsOf(bks[i]) : i \in {n \in 1..Len(bks) : /\ bks[n].showId = showId
                                                        /\ bks[n].status = "confirmed"}}

C2_LeaseXorBooking ==
  \A i \in 1..Len(activeSeatLocks) :
    activeSeatLocks[i].expiresAt >= now
    => activeSeatLocks[i].seatId
         \notin ConfirmedSeatIds(bookings, activeSeatLocks[i].showId)

\* the seats of q that are unavailable for show p: leased or booked
Unavailable(p, q) ==
  {a \in Range(q) : \/ LocksOn(activeSeatLocks, p, a) # {}
                    \/ a \in ConfirmedSeatIds(bookings, p)}

\* C5: a requestLock naming an unavailable seat answers lockFailed with
\* exactly the unavailable seats as conflicts, and changes and emits nothing
C5_WholeRejection ==
  [][\A sock \in Sockets, q \in SeatIdLists["P"] :
       (RequestLock(sock, "P", q) /\ Unavailable("P", q) # {}) =>
         /\ lastOp'.reply = "lockFailed"
         /\ Range(lastOp'.detail) = Unavailable("P", q)
         /\ activeSeatLocks' = activeSeatLocks
         /\ lastOp'.events = <<>>
    ]_vars

\* user u holds an unexpired registry lease on every seat of q for show p
HoldsLeases(u, p, q) ==
  \A k \in 1..Len(q) :
    \E i \in LocksOn(activeSeatLocks, p, SeatId(q[k])) :
      /\ activeSeatLocks[i].userId = u
      /\ activeSeatLocks[i].expiresAt >= now

\* C6: a commit by the holder of unexpired registry leases on all its seats is
\* not rejected for missing leases
C6_SameLeaseState ==
  [][\A u \in Users, q \in FlowSeatLists :
       (Commit(u, "P", q) /\ HoldsLeases(u, "P", q)) => lastOp'.reply # "missingLocks"
    ]_vars

\* C7: the example run's third step: X holds the only lease (A1 of P), Y has
\* just been refused <<A1, A2>> with conflicts <<A1>>, nothing is booked; X's
\* commit of A1 creates the first booking and lowers availableSeats by one
C7_ExampleRun ==
  [][(/\ bookings = <<>>
      /\ availableSeats["P"] = TotalSeats["P"]
      /\ Len(activeSeatLocks) = 1
      /\ activeSeatLocks[1].showId = "P" /\ activeSeatLocks[1].seatId = "A1"
      /\ activeSeatLocks[1].userId = "X"
      /\ lastOp.reply = "lockFailed" /\ lastOp.to = "sy" /\ lastOp.detail = <<"A1">>
      /\ Commit("X", "P", <<Seat(1, "regular")>>))
     => /\ lastOp'.reply = "created"
        /\ Len(bookings') = 1
        /\ availableSeats'["P"] = TotalSeats["P"] - 1
    ]_vars

C10_ReleaseOwnOnly ==
  [][\A sock \in Sockets, p \in Shows : \A q \in SeatIdLists[p], l \in KnownLockIds :
       (/\ ReleaseLock(sock, p, q, l)
        /\ \A a \in Range(q) : \A i \in LocksOn(activeSeatLocks, p, a) :
             activeSeatLocks[i].userId # UserOf[sock])
       => /\ activeSeatLocks' = activeSeatLocks
          /\ lastOp'.events = <<>>
    ]_vars
\* the registry entries of user u
HeldBy(m, u) == {i \in 1..Len(m) : m[i].userId = u}

\* C11: no user holds more than MaxSeatsPerRequest leases in the registry
\* at once, counted over all of the user's requests
C11_HolderCap ==
  \A u \in Users : Cardinality(HeldBy(activeSeatLocks, u)) <= MaxSeatsPerRequest
\* the registry entries created through socket sock
HeldThrough(m, sock) == {i \in 1..Len(m) : m[i].socketId = sock}

\* the (show, seat) pairs named by the released events of a handler
ReleasedSeats(events) ==
  {<<events[k].showId, events[k].seatIds[1]>> :
     k \in {n \in 1..Len(events) : events[n].action = "released"}}
ReleasedCount(events) ==
  Cardinality({n \in 1..Len(events) : events[n].action = "released"})

\* C12: a disconnect of a socket holding N leases removes exactly those N
\* entries, keeps every entry of the other sockets, and emits N released
\* events, one per seat; and whatever handler runs before or after it, each
\* released event stands for one entry that handler removed
C12_DisconnectExact ==
  [][/\ \A sock \in Sockets :
          Disconnect(sock) =>
            LET mine == HeldThrough(activeSeatLocks, sock)
            IN  /\ activeSeatLocks' = SelectSeq(activeSeatLocks,
                                                LAMBDA e : e.socketId # sock)
                /\ Len(lastOp'.events) = Cardinality(mine)
                /\ ReleasedCount(lastOp'.events) = Cardinality(mine)
                /\ ReleasedSeats(lastOp'.events)
                     = {<<activeSeatLocks[i].showId, activeSeatLocks[i].seatId>> : i \in mine}
     /\ now' = now =>
          /\ ReleasedCount(lastOp'.events) = Cardinality(ReleasedSeats(lastOp'.events))
          /\ \A r \in ReleasedSeats(lastOp'.events) :
               /\ LocksOn(activeSeatLocks, r[1], r[2]) # {}
               /\ LocksOn(activeSeatLocks', r[1], r[2]) = {}
    ]_vars

\* C12: a socket holding two leases has just disconnected, two released
\* events went out, and the other socket's lease is still in the registry
C12_Witness ==
  /\ lastOp.op = "disconnect"
  /\ ReleasedCount(lastOp.events) = 2
  /\ Len(activeSeatLocks) >= 1
  /\ \E sock \in Sockets :
       /\ sock \notin connected
       /\ HeldThrough(activeSeatLocks, sock) = {}
       /\ \E other \in connected : HeldThrough(activeSeatLocks, other) # {}
\* C13: the handler that removes a lease past its expiresAt emits the
\* released event with reason expired, and a requestLock whose seats carry
\* only leases past their expiresAt is granted
C13_ExpiredNeverBlocks ==
  [][/\ \A t \in timers :
          TimerFire(t) =>
            \A k \in 1..Len(lastOp'.events) :
              lastOp'.events[k].action = "released" => lastOp'.events[k].reason = "expired"
     /\ Sweep =>
          \A k \in 1..Len(lastOp'.events) : lastOp'.events[k].reason = "expired"
     /\ \A sock \in Sockets, p \in Shows : \A q \in SeatIdLists[p] :
          (/\ RequestLock(sock, p, q)
           /\ \A a \in Range(q) : \A i \in LocksOn(activeSeatLocks, p, a) :
                activeSeatLocks[i].expiresAt < now)
          => lastOp'.reply = "lockSuccess"
    ]_vars
\* the registry holds the lease granted to user u at time t on seat a of show p
Leased(p, a, u, t) ==
  \E i \in LocksOn(activeSeatLocks, p, a) : activeSeatLocks[i].lockId = LockId(p, u, t)

\* C14: every entry's expiresAt is its grant time plus LeaseMinutes, and
\* with the clock, the sweep and the timers running, every seat's leases
\* granted at a time t whose expiresAt the clock reaches are eventually out
\* of the registry
C14_NoLeaseForever ==
  /\ [](\A i \in 1..Len(activeSeatLocks) :
          /\ activeSeatLocks[i].expiresAt = activeSeatLocks[i].lockId[3] + LeaseMinutes
          /\ activeSeatLocks[i].lockId[3] <= now)
  /\ \A p \in Shows : \A a \in ValidSeats[p], t \in {0, LeaseMinutes} :
       (t + LeaseMinutes <= Horizon)
         => ((\E u \in Users : Leased(p, a, u, t)) ~> ~(\E u \in Users : Leased(p, a, u, t)))

\* C14: a lease granted after the start is in the registry at its expiresAt
C14_Witness ==
  \E i \in 1..Len(activeSeatLocks) :
    /\ activeSeatLocks[i].lockId[3] = LeaseMinutes
    /\ activeSeatLocks[i].expiresAt = now
\* C15: a joinShow for show p is answered with currentLocks listing, with seat
\* id and expiry, exactly the registry's entries of p
C15_JoinSnapshot ==
  [][\A sock \in Sockets, data \in JoinData :
       JoinShow(sock, data) =>
         LET p == JoinTarget(data)
         IN  /\ lastOp'.reply = "currentLocks"
             /\ {<<lastOp'.detail[k].seatId, lastOp'.detail[k].expiresAt>> :
                   k \in 1..Len(lastOp'.detail)}
                = {<<activeSeatLocks[i].seatId, activeSeatLocks[i].expiresAt>> :
                     i \in {n \in 1..Len(activeSeatLocks) : activeSeatLocks[n].showId = p}}
             /\ Len(lastOp'.detail)
                = Cardinality({n \in 1..Len(activeSeatLocks) : activeSeatLocks[n].showId = p})
    ]_vars
\* the seats of show p that have an entry in registry m
KeysOf(m, p) == {m[i].seatId : i \in {n \in 1..Len(m) : m[n].showId = p}}

\* what a subscriber of show p's room computes from the events sent to that
\* room, in order: a locked event adds its seats, which must have been free;
\* a released event removes its seat, which must have been held
RECURSIVE Replay(_, _, _)
Replay(r, events, p) ==
  IF events = <<>> THEN r
  ELSE LET e == Head(events)
           seats == Range(e.seatIds)
       IN  IF e.showId # p \/ e.action \notin {"locked", "released"}
           THEN Replay(r, Tail(events), p)
           ELSE IF e.action = "locked"
           THEN Replay([ok |-> r.ok /\ seats \cap r.keys = {} /\ seats # {},
                        keys |-> r.keys \cup seats], Tail(events), p)
           ELSE Replay([ok |-> r.ok /\ seats \subseteq r.keys /\ Len(e.seatIds) = 1,
                        keys |-> r.keys \ seats], Tail(events), p)

\* C16: for every handler and every show p, the locked and released events
\* it sends to p's room, applied in order to the seats p had leased before,
\* give the seats p has leased after: one locked event per grant, one
\* released event per removed seat, nothing for a room whose show did not
\* change
C16_EventsAreChanges ==
  [][now' = now =>
       \A p \in Shows :
         LET r == Replay([ok |-> TRUE, keys |-> KeysOf(activeSeatLocks, p)],
                         lastOp'.events, p)
             locked == {k \in 1..Len(lastOp'.events) :
                          /\ lastOp'.events[k].showId = p
                          /\ lastOp'.events[k].action = "locked"}
         IN  /\ r.ok
             /\ r.keys = KeysOf(activeSeatLocks', p)
             /\ Cardinality(locked)
                = (IF KeysOf(activeSeatLocks', p) \ KeysOf(activeSeatLocks, p) # {}
                   THEN 1 ELSE 0)
    ]_vars

\* C16: the sweep has just removed both leases of show P with two released
\* events while the lease of show Q stays in the registry
C16_Witness ==
  /\ lastOp.op = "sweep"
  /\ Len(lastOp.events) = 2
  /\ \A k \in 1..Len(lastOp.events) : lastOp.events[k].showId = "P"
  /\ KeysOf(activeSeatLocks, "P") = {}
  /\ KeysOf(activeSeatLocks, "Q") # {}
\* C17: a commit for a show starting less than MinLeadMinutes after now,
\* or already started, answers the window error and leaves bookings,
\* availableSeats, SeatLock documents and registry as they were; a commit for
\* a show starting MinLeadMinutes or more after now is not answered with the
\* window error
C17_Window ==
  [][\A u \in Users, p \in Catalog, q \in SeatRecLists :
       Commit(u, p, q) =>
         IF StartTime[p] - now < MinLeadMinutes
         THEN /\ lastOp'.reply = "window"
              /\ UNCHANGED <<bookings, availableSeats, seatLockDocs, activeSeatLocks>>
         ELSE lastOp'.reply # "window"
    ]_vars

\* C17: a commit has just been refused for the window while a booking made
\* before the cutoff and an unexpired SeatLock document exist
C17_Witness ==
  /\ lastOp.op = "commit" /\ lastOp.reply = "window"
  /\ \E i \in 1..Len(bookings) : bookings[i].showId = "Q"
  /\ \E d \in seatLockDocs : d.expiresAt >= now
  /\ StartTime["Q"] - now < MinLeadMinutes
  /\ StartTime["S"] - now < 0
\* the seats of q for which user u has no unexpired SeatLock document of show p
LacksLease(u, p, q) ==
  {SeatId(q[k]) : k \in 1..Len(q)} \
  {d.seatId : d \in {e \in seatLockDocs : /\ e.showId = p
                                          /\ e.lockedByUserId = u
                                          /\ e.expiresAt >= now}}

\* C18: outside the cutoff, a commit naming a seat without an unexpired lease
\* of the caller answers the lease error and creates no booking; and the
\* lease error always lists exactly those seats, at least one
C18_LeaseError ==
  [][\A u \in Users, p \in Catalog, q \in SeatRecLists :
       (Commit(u, p, q) /\ ~InsideCutoff(StartTime[p] - now)) =>
         /\ LacksLease(u, p, q) # {} =>
              /\ lastOp'.reply = "missingLocks"
              /\ bookings' = bookings
         /\ lastOp'.reply = "missingLocks" =>
              /\ LacksLease(u, p, q) # {}
              /\ Range(lastOp'.detail) = LacksLease(u, p, q)
    ]_vars
\* C19: outside the cutoff, a commit naming a seat of a confirmed booking of
\* the show answers the conflict error; a commit answered with the conflict
\* error creates no booking, leaves availableSeats as it was, lists exactly
\* the requested seats that are booked, and leaves every SeatLock document
\* and registry entry in place
C19_ConflictKeepsLeases ==
  [][\A u \in Users, p \in {"P"}, q \in FlowSeatLists :
       (Commit(u, p, q) /\ ~InsideCutoff(StartTime[p] - now)) =>
         LET booked == {SeatId(q[k]) : k \in 1..Len(q)} \cap ConfirmedSeatIds(bookings, p)
         IN  /\ booked # {} => lastOp'.reply = "conflict"
             /\ lastOp'.reply = "conflict" =>
                  /\ booked # {}
                  /\ Range(lastOp'.detail) = booked
                  /\ UNCHANGED <<bookings, availableSeats, seatLockDocs, activeSeatLocks>>
    ]_vars

\* C19: a commit of A1 and A2 has just been refused because A1 is booked,
\* and the caller's registry lease and unexpired SeatLock document on A2 are
\* still there
C19_Witness ==
  /\ lastOp.op = "commit" /\ lastOp.reply = "conflict"
  /\ lastOp.detail = <<"A1">>
  /\ \E d \in seatLockDocs : /\ d.showId = "P" /\ d.seatId = "A2"
                             /\ d.lockedByUserId = lastOp.to
                             /\ d.expiresAt >= now
  /\ \E i \in LocksOn(activeSeatLocks, "P", "A2") :
       activeSeatLocks[i].userId = lastOp.to
  /\ "A1" \in ConfirmedSeatIds(bookings, "P")
\* C20: a commit answered with the booking has appended it, lowered
\* availableSeats by the number of seats and left no lease on a committed
\* seat, neither a SeatLock document of the caller nor a registry entry; a
\* commit answered with anything else has changed none of bookings,
\* availableSeats, SeatLock documents and registry
C20_AllOrNothing ==
  [][/\ \A u \in Users, q \in FlowSeatLists :
          Commit(u, "P", q) =>
            IF lastOp'.reply = "created"
            THEN /\ Len(bookings') = Len(bookings) + 1
                 /\ availableSeats'["P"] = availableSeats["P"] - Len(q)
                 /\ \A k \in 1..Len(q) :
                      /\ LocksOn(activeSeatLocks', "P", SeatId(q[k])) = {}
                      /\ ~\E d \in seatLockDocs' :
                            /\ d.showId = "P" /\ d.seatId = SeatId(q[k])
                            /\ d.lockedByUserId = u
            ELSE UNCHANGED <<bookings, availableSeats, seatLockDocs, activeSeatLocks>>
     /\ \A u \in Users :
          CommitFails(u) =>
            UNCHANGED <<bookings, availableSeats, seatLockDocs, activeSeatLocks>>
    ]_vars
\* C21: a commit answered with the booking emits to the show's room a
\* seatsBooked event with the committed seat ids and the booking's id
C21_BookedBroadcast ==
  [][\A u \in Users, q \in FlowSeatLists :
       (Commit(u, "P", q) /\ lastOp'.reply = "created") =>
         \E k \in 1..Len(lastOp'.events) :
           /\ lastOp'.events[k].action = "seatsBooked"
           /\ lastOp'.events[k].showId = "P"
           /\ Range(lastOp'.events[k].seatIds) = {SeatId(q[i]) : i \in 1..Len(q)}
           /\ lastOp'.booking = Len(bookings')
    ]_vars
\* C22: every booking's totalAmount is the sum of its seats' prices, and
\* each seat's price is the show's price of the seat's type, a price of 0
\* included
C22_Prices ==
  \A i \in 1..Len(bookings) :
    /\ bookings[i].totalAmount = SumPrices(bookings[i].seats)
    /\ \A k \in 1..Len(bookings[i].seats) :
         bookings[i].seats[k].price
           = Price[bookings[i].showId][bookings[i].seats[k].type]
C24_RetryBeforeFailure ==
  [][\A u \in Users : CommitFails(u) => lastOp'.reply # "failed"]_vars
\* C25: once a session has received lockFailed for a seat it asked for, the
\* seat is not among its selectedSeats
C25_FailedNotHeld ==
  \A sock \in Sockets :
    (lastOp.op = "received" /\ lastOp.to = sock /\ lastOp.reply = "lockFailed")
    => Range(lastOp.detail) \cap Range(client[sock].selectedSeats) = {}
\* C26: a session in the room of show P that has received the locked
\* broadcast of another holder's grant on a seat emits no requestLock for
\* that seat with its next click
C26_LockedUnselectable ==
  [][\A sock \in Sockets, a \in ValidSeats["P"] :
       (/\ HandleSeatClick(sock, a)
        /\ sock \in rooms["P"]
        /\ lastOp.op = "received" /\ lastOp.to = sock
        /\ lastOp.reply = "seatLocksUpdated"
        /\ \E k \in 1..Len(lastOp.events) :
             /\ lastOp.events[k].action = "locked"
             /\ a \in Range(lastOp.events[k].seatIds)
             /\ lastOp.events[k].lockId[2] # UserOf[sock])
       => lastOp' # Emit(sock, "requestLock", <<a>>)
    ]_vars
\* C27: inside the cutoff a commit answers the window error whatever its
\* seats; outside it, a commit naming a seat that both lacks the caller's
\* unexpired lease and belongs to a confirmed booking answers the lease
\* error
C27_CheckOrder ==
  [][\A u \in Users, p \in Catalog, q \in SeatRecLists :
       Commit(u, p, q) =>
         IF InsideCutoff(StartTime[p] - now)
         THEN lastOp'.reply = "window"
         ELSE (LacksLease(u, p, q) \cap ConfirmedSeatIds(bookings, p) # {})
              => lastOp'.reply = "missingLocks"
    ]_vars
\* C28: when a requestLock timer fires for a seat that has been granted
\* again since (the later grant's timer is still pending), the entry on that
\* seat stays and no released event goes out for it
C28_TimerOwnLeaseOnly ==
  [][\A t \in timers :
       TimerFire(t) =>
         \A a \in Range(t.seatIds) :
           (\E t2 \in timers : /\ t2.id > t.id
                               /\ t2.showId = t.showId
                               /\ a \in Range(t2.seatIds))
           => /\ {activeSeatLocks'[i] : i \in LocksOn(activeSeatLocks', t.showId, a)}
                 = {activeSeatLocks[i] : i \in LocksOn(activeSeatLocks, t.showId, a)}
              /\ <<t.showId, a>> \notin ReleasedSeats(lastOp'.events)
    ]_vars
\* C29: every seatsBooked event emitted to a show's room names only seats
\* covered by a confirmed booking of that show
C29_BookedOnlyCommitted ==
  \A k \in 1..Len(lastOp.events) :
    lastOp.events[k].action = "seatsBooked"
      => Range(lastOp.events[k].seatIds)
           \subseteq ConfirmedSeatIds(bookings, lastOp.events[k].showId)
====
